---- MODULE Spec2Model ----
(***************************************************************************)
(* Rumati AVL: an ordered container backed by an AVL tree (src/avl.c).     *)
(*                                                                         *)
(* A node is a record [left, right, balance, data]; an absent link is      *)
(* NULL.  A pointer to a link (a node_ptr or parent_link) is the sequence   *)
(* of directions that leads from tree->root to that link.  The stored      *)
(* objects are records [key, val]; the comparator orders them by key.      *)
(***************************************************************************)
EXTENDS Integers, Sequences, FiniteSets, TLC

(***************************************************************************)
(* Bounds of the model.                                                    *)
(***************************************************************************)
MaxKey == 4         \* keys of the objects of Spec
MaxVal == 2         \* values of the objects of Spec
MaxDeepKey == 8     \* keys of the objects of SpecDeep (one value each)
MaxHeight == 4      \* the path record's capacity is cut down to this
MaxPassKey == 8      \* keys of the objects of SpecPasses (one value each)
MaxSubtreeHeight == 2   \* heights of the subtrees SpecRotate hangs on a rotation

RUMATI_AVL_MAX_HEIGHT == 40

\* The capacity of update[] in the model: the program's, cut down to the bound.
UpdateCapacity == IF RUMATI_AVL_MAX_HEIGHT < MaxHeight
                  THEN RUMATI_AVL_MAX_HEIGHT ELSE MaxHeight

Objects == [key : 1..MaxKey, val : 1..MaxVal]
DeepObjects == [key : 1..MaxDeepKey, val : {1}]
PassObjects == [key : 1..MaxPassKey, val : {1}]

NULL == [null |-> TRUE]
\* The caller's old_value variable before a call writes it.
Unset == [unset |-> TRUE]

RUMATI_AVL_ERROR == {"OK", "ENOMEM", "EINVAL", "ENOENT", "ETOOBIG"}

comparator(value1, value2) ==
    IF value1.key > value2.key THEN 1
    ELSE IF value1.key < value2.key THEN -1
    ELSE 0

(***************************************************************************)
(* Links.                                                                  *)
(***************************************************************************)
RECURSIVE Deref(_, _)
\* *link, where link is a path of directions from the root link
Deref(t, link) ==
    IF link = <<>> THEN t
    ELSE Deref(IF Head(link) = "L" THEN t.left ELSE t.right, Tail(link))

RECURSIVE Store(_, _, _)
\* *link = n
Store(t, link, n) ==
    IF link = <<>> THEN n
    ELSE IF Head(link) = "L"
         THEN [t EXCEPT !.left = Store(t.left, Tail(link), n)]
         ELSE [t EXCEPT !.right = Store(t.right, Tail(link), n)]

(***************************************************************************)
(* Rotations.  Each takes the subtree *node_ptr and yields the subtree     *)
(* that *node_ptr holds afterwards.                                        *)
(***************************************************************************)
\* rotate_right without the "if (nrb < 0)" correction of the old root
rumati_avl_rotate_right_no_nrb(old_root) ==
    LET new_root == old_root.left
        nrb == new_root.balance
        orb2 == old_root.balance + 1
        nrb1 == nrb + 1
        nrb2 == IF orb2 > 0 THEN nrb1 + orb2 ELSE nrb1
    IN [new_root EXCEPT
          !.right = [old_root EXCEPT !.left = new_root.right, !.balance = orb2],
          !.balance = nrb2]

rumati_avl_rotate_right(old_root) ==
    LET new_root == old_root.left
        nrb == new_root.balance
        orb1 == old_root.balance + 1
        orb2 == IF nrb < 0 THEN orb1 - nrb ELSE orb1
        nrb1 == nrb + 1
        nrb2 == IF orb2 > 0 THEN nrb1 + orb2 ELSE nrb1
    IN [new_root EXCEPT
          !.right = [old_root EXCEPT !.left = new_root.right, !.balance = orb2],
          !.balance = nrb2]

\* rotate_left without the "if (orb < 0)" correction of the new root
rumati_avl_rotate_left_no_orb(old_root) ==
    LET new_root == old_root.right
        nrb == new_root.balance
        orb1 == old_root.balance - 1
        orb2 == IF nrb > 0 THEN orb1 - nrb ELSE orb1
        nrb1 == nrb - 1
    IN [new_root EXCEPT
          !.left = [old_root EXCEPT !.right = new_root.left, !.balance = orb2],
          !.balance = nrb1]

rumati_avl_rotate_left(old_root) ==
    LET new_root == old_root.right
        nrb == new_root.balance
        orb1 == old_root.balance - 1
        orb2 == IF nrb > 0 THEN orb1 - nrb ELSE orb1
        nrb1 == nrb - 1
        nrb2 == IF orb2 < 0 THEN nrb1 + orb2 ELSE nrb1
    IN [new_root EXCEPT
          !.left = [old_root EXCEPT !.right = new_root.left, !.balance = orb2],
          !.balance = nrb2]

(***************************************************************************)
(* The path record.                                                        *)
(***************************************************************************)
\* add_update refusing an entry two entries later than it does
rumati_avl_add_update_late(updates, node_ptr, left) ==
    IF Len(updates) = UpdateCapacity + 1
    THEN [ok |-> FALSE, updates |-> updates]
    ELSE [ok |-> TRUE,
          updates |-> Append(updates, [node_ptr |-> node_ptr, left |-> left])]

\* number_of_updates is Len(updates); yields [ok, updates]
rumati_avl_add_update(updates, node_ptr, left) ==
    IF Len(updates) = UpdateCapacity - 1
    THEN [ok |-> FALSE, updates |-> updates]
    ELSE [ok |-> TRUE,
          updates |-> Append(updates, [node_ptr |-> node_ptr, left |-> left])]

(***************************************************************************)
(* rumati_avl_put                                                          *)
(***************************************************************************)
RECURSIVE put_search(_, _, _, _)
\* the binary search of put: yields the link where it ended, the path
\* record and how it ended ("found", "null" or "toobig")
put_search(root, object, parent_link, updates) ==
    LET n == Deref(root, parent_link) IN
    IF n = NULL
    THEN [end |-> "null", parent_link |-> parent_link, updates |-> updates]
    ELSE LET cmp == comparator(object, n.data) IN
         IF cmp = 0
         THEN [end |-> "found", parent_link |-> parent_link, updates |-> updates]
         ELSE LET a == rumati_avl_add_update(updates, parent_link, cmp < 0) IN
              IF ~a.ok
              THEN [end |-> "toobig", parent_link |-> parent_link,
                    updates |-> updates]
              ELSE put_search(root, object,
                              Append(parent_link, IF cmp > 0 THEN "R" ELSE "L"),
                              a.updates)

RECURSIVE put_updates_on_after_rotation(_, _)
\* the "Do updates" loop of put without the break that follows the rotations
put_updates_on_after_rotation(root, updates) ==
    IF Len(updates) = 0 THEN root
    ELSE
    LET update == updates[Len(updates)]
        rest == SubSeq(updates, 1, Len(updates) - 1)
        n == Deref(root, update.node_ptr)
    IN  IF update.left
        THEN LET n1 == [n EXCEPT !.balance = @ - 1] IN
             IF n1.balance < -1
             THEN LET n2 == IF n1.left.balance > 0
                            THEN [n1 EXCEPT !.left = rumati_avl_rotate_left(@)]
                            ELSE n1
                  IN put_updates_on_after_rotation(
                         Store(root, update.node_ptr, rumati_avl_rotate_right(n2)),
                         rest)
             ELSE IF n1.balance >= 0
             THEN Store(root, update.node_ptr, n1)
             ELSE put_updates_on_after_rotation(Store(root, update.node_ptr, n1), rest)
        ELSE LET n1 == [n EXCEPT !.balance = @ + 1] IN
             IF n1.balance > 1
             THEN LET n2 == IF n1.right.balance < 0
                            THEN [n1 EXCEPT !.right = rumati_avl_rotate_right(@)]
                            ELSE n1
                  IN put_updates_on_after_rotation(
                         Store(root, update.node_ptr, rumati_avl_rotate_left(n2)),
                         rest)
             ELSE IF n1.balance <= 0
             THEN Store(root, update.node_ptr, n1)
             ELSE put_updates_on_after_rotation(Store(root, update.node_ptr, n1), rest)

RECURSIVE put_updates_on_past_even(_, _)
\* the "Do updates" loop of put going on past an ancestor that became even
put_updates_on_past_even(root, updates) ==
    IF Len(updates) = 0 THEN root
    ELSE
    LET update == updates[Len(updates)]
        rest == SubSeq(updates, 1, Len(updates) - 1)
        n == Deref(root, update.node_ptr)
    IN  IF update.left
        THEN LET n1 == [n EXCEPT !.balance = @ - 1] IN
             IF n1.balance < -1
             THEN LET n2 == IF n1.left.balance > 0
                            THEN [n1 EXCEPT !.left = rumati_avl_rotate_left(@)]
                            ELSE n1
                  IN Store(root, update.node_ptr, rumati_avl_rotate_right(n2))
             ELSE put_updates_on_past_even(Store(root, update.node_ptr, n1), rest)
        ELSE LET n1 == [n EXCEPT !.balance = @ + 1] IN
             IF n1.balance > 1
             THEN LET n2 == IF n1.right.balance < 0
                            THEN [n1 EXCEPT !.right = rumati_avl_rotate_right(@)]
                            ELSE n1
                  IN Store(root, update.node_ptr, rumati_avl_rotate_left(n2))
             ELSE put_updates_on_past_even(Store(root, update.node_ptr, n1), rest)

RECURSIVE put_updates(_, _)
\* the "Do updates" loop of put
put_updates(root, updates) ==
    IF Len(updates) = 0 THEN root
    ELSE
    LET update == updates[Len(updates)]
        rest == SubSeq(updates, 1, Len(updates) - 1)
        n == Deref(root, update.node_ptr)
    IN  IF update.left
        THEN LET n1 == [n EXCEPT !.balance = @ - 1] IN
             IF n1.balance < -1
             THEN LET n2 == IF n1.left.balance > 0
                            THEN [n1 EXCEPT !.left = rumati_avl_rotate_left(@)]
                            ELSE n1
                  IN Store(root, update.node_ptr, rumati_avl_rotate_right(n2))
             ELSE IF n1.balance >= 0
             THEN Store(root, update.node_ptr, n1)
             ELSE put_updates(Store(root, update.node_ptr, n1), rest)
        ELSE LET n1 == [n EXCEPT !.balance = @ + 1] IN
             IF n1.balance > 1
             THEN LET n2 == IF n1.right.balance < 0
                            THEN [n1 EXCEPT !.right = rumati_avl_rotate_right(@)]
                            ELSE n1
                  IN Store(root, update.node_ptr, rumati_avl_rotate_left(n2))
             ELSE IF n1.balance <= 0
             THEN Store(root, update.node_ptr, n1)
             ELSE put_updates(Store(root, update.node_ptr, n1), rest)

\* the new leaf of put
NewNode(object) ==
    [left |-> NULL, right |-> NULL, balance |-> 0, data |-> object]

\* put running the "Do updates" loop after replacing the data of a match
rumati_avl_put_rebalancing_replace(root, object, has_old, malloc_ok) ==
    LET s == put_search(root, object, <<>>, <<>>) IN
    IF s.end = "found"
    THEN LET n == Deref(root, s.parent_link) IN
         [root |-> put_updates(Store(root, s.parent_link,
                                     [n EXCEPT !.data = object]), s.updates),
          err |-> "OK",
          old |-> IF has_old THEN n.data ELSE Unset,
          case |-> "replace"]
    ELSE IF s.end = "toobig"
    THEN [root |-> root, err |-> "ETOOBIG", old |-> Unset, case |-> "none"]
    ELSE IF ~malloc_ok
    THEN [root |-> root, err |-> "ENOMEM", old |-> Unset, case |-> "none"]
    ELSE [root |-> put_updates(Store(root, s.parent_link, NewNode(object)),
                               s.updates),
          err |-> "OK",
          old |-> IF has_old THEN NULL ELSE Unset,
          case |-> "insert"]

\* put adjusting the balances of the path before it learns that malloc failed
rumati_avl_put_updates_before_enomem(root, object, has_old, malloc_ok) ==
    LET s == put_search(root, object, <<>>, <<>>) IN
    IF s.end = "found"
    THEN LET n == Deref(root, s.parent_link) IN
         [root |-> Store(root, s.parent_link, [n EXCEPT !.data = object]),
          err |-> "OK",
          old |-> IF has_old THEN n.data ELSE Unset,
          case |-> "replace"]
    ELSE IF s.end = "toobig"
    THEN [root |-> root, err |-> "ETOOBIG", old |-> Unset, case |-> "none"]
    ELSE IF ~malloc_ok
    THEN [root |-> put_updates(root, s.updates),
          err |-> "ENOMEM", old |-> Unset, case |-> "none"]
    ELSE [root |-> put_updates(Store(root, s.parent_link, NewNode(object)),
                               s.updates),
          err |-> "OK",
          old |-> IF has_old THEN NULL ELSE Unset,
          case |-> "insert"]

\* yields [root, err, old, case]: the tree, the return value, what the call
\* stores in *old_value (Unset when it stores nothing) and the branch taken.
\* has_old tells whether old_value != NULL, malloc_ok whether malloc()
\* succeeds.
rumati_avl_put(root, object, has_old, malloc_ok) ==
    LET s == put_search(root, object, <<>>, <<>>) IN
    IF s.end = "found"
    THEN LET n == Deref(root, s.parent_link) IN
         [root |-> Store(root, s.parent_link, [n EXCEPT !.data = object]),
          err |-> "OK",
          old |-> IF has_old THEN n.data ELSE Unset,
          case |-> "replace"]
    ELSE IF s.end = "toobig"
    THEN [root |-> root, err |-> "ETOOBIG", old |-> Unset, case |-> "none"]
    ELSE IF ~malloc_ok
    THEN [root |-> root, err |-> "ENOMEM", old |-> Unset, case |-> "none"]
    ELSE [root |-> put_updates(Store(root, s.parent_link, NewNode(object)),
                               s.updates),
          err |-> "OK",
          old |-> IF has_old THEN NULL ELSE Unset,
          case |-> "insert"]

(***************************************************************************)
(* rumati_avl_delete                                                       *)
(***************************************************************************)
RECURSIVE delete_search(_, _, _, _)
\* the search loop of delete up to the node that matches: yields how it
\* ended ("found", "noent" or "toobig"), the link and the path record
delete_search(root, object, parent_link, updates) ==
    LET n == Deref(root, parent_link) IN
    IF n = NULL
    THEN [end |-> "noent", parent_link |-> parent_link, updates |-> updates]
    ELSE LET cmp == comparator(object, n.data) IN
         IF cmp = 0
         THEN [end |-> "found", parent_link |-> parent_link, updates |-> updates]
         ELSE LET a == rumati_avl_add_update(updates, parent_link, cmp < 0) IN
              IF ~a.ok
              THEN [end |-> "toobig", parent_link |-> parent_link,
                    updates |-> updates]
              ELSE delete_search(root, object,
                                 Append(parent_link, IF cmp > 0 THEN "R" ELSE "L"),
                                 a.updates)

RECURSIVE delete_extreme_wrong_way(_, _, _, _)
\* delete_extreme walking to the other extreme of the subtree
delete_extreme_wrong_way(root, parent_link, updates, to_right) ==
    LET n == Deref(root, parent_link)
        next == IF to_right THEN n.left ELSE n.right
    IN  IF next = NULL
        THEN [ok |-> TRUE, parent_link |-> parent_link, updates |-> updates]
        ELSE LET a == rumati_avl_add_update(updates, parent_link, to_right) IN
             IF ~a.ok
             THEN [ok |-> FALSE, parent_link |-> parent_link, updates |-> updates]
             ELSE delete_extreme_wrong_way(root,
                                 Append(parent_link, IF to_right THEN "L" ELSE "R"),
                                 a.updates, to_right)

RECURSIVE delete_extreme(_, _, _, _)
\* the inner while loop of the two-children case: from parent_link walk
\* to the rightmost node (to_right) or the leftmost node, recording the path
delete_extreme(root, parent_link, updates, to_right) ==
    LET n == Deref(root, parent_link)
        next == IF to_right THEN n.right ELSE n.left
    IN  IF next = NULL
        THEN [ok |-> TRUE, parent_link |-> parent_link, updates |-> updates]
        ELSE LET a == rumati_avl_add_update(updates, parent_link, ~to_right) IN
             IF ~a.ok
             THEN [ok |-> FALSE, parent_link |-> parent_link, updates |-> updates]
             ELSE delete_extreme(root,
                                 Append(parent_link, IF to_right THEN "R" ELSE "L"),
                                 a.updates, to_right)

\* the two-children case storing *old_value after delnode->data was overwritten
delete_two_children_late_old(root, parent_link, updates) ==
    LET delnode == Deref(root, parent_link)
        to_left == delnode.balance < 0
        a == rumati_avl_add_update(updates, parent_link, to_left)
    IN  IF ~a.ok
        THEN [ok |-> FALSE, root |-> root, updates |-> updates, old |-> Unset,
              case |-> "none"]
        ELSE
        LET e == delete_extreme(root,
                                Append(parent_link, IF to_left THEN "L" ELSE "R"),
                                a.updates, to_left)
        IN  IF ~e.ok
            THEN [ok |-> FALSE, root |-> root, updates |-> updates,
                  old |-> Unset, case |-> "none"]
            ELSE
            LET neighbour == Deref(root, e.parent_link)
                root1 == Store(root, parent_link,
                               [delnode EXCEPT !.data = neighbour.data])
                root2 == Store(root1, e.parent_link,
                               IF to_left THEN neighbour.left ELSE neighbour.right)
            IN  [ok |-> TRUE, root |-> root2, updates |-> e.updates,
                 old |-> neighbour.data,
                 case |-> IF to_left THEN "predecessor" ELSE "successor"]

\* the two-children case breaking the tie of an even node towards the left
delete_two_children_ties_left(root, parent_link, updates) ==
    LET delnode == Deref(root, parent_link)
        to_left == delnode.balance <= 0
        a == rumati_avl_add_update(updates, parent_link, to_left)
    IN  IF ~a.ok
        THEN [ok |-> FALSE, root |-> root, updates |-> updates, old |-> Unset,
              case |-> "none"]
        ELSE
        LET e == delete_extreme(root,
                                Append(parent_link, IF to_left THEN "L" ELSE "R"),
                                a.updates, to_left)
        IN  IF ~e.ok
            THEN [ok |-> FALSE, root |-> root, updates |-> updates,
                  old |-> Unset, case |-> "none"]
            ELSE
            LET neighbour == Deref(root, e.parent_link)
                root1 == Store(root, parent_link,
                               [delnode EXCEPT !.data = neighbour.data])
                root2 == Store(root1, e.parent_link,
                               IF to_left THEN neighbour.left ELSE neighbour.right)
            IN  [ok |-> TRUE, root |-> root2, updates |-> e.updates,
                 old |-> delnode.data,
                 case |-> IF to_left THEN "predecessor" ELSE "successor"]

\* the two-children case of delete: delnode keeps its place, takes the data
\* of its in-order neighbour, and the neighbour's node is unlinked
delete_two_children(root, parent_link, updates) ==
    LET delnode == Deref(root, parent_link)
        to_left == delnode.balance < 0
        a == rumati_avl_add_update(updates, parent_link, to_left)
    IN  IF ~a.ok
        THEN [ok |-> FALSE, root |-> root, updates |-> updates, old |-> Unset,
              case |-> "none"]
        ELSE
        LET e == delete_extreme(root,
                                Append(parent_link, IF to_left THEN "L" ELSE "R"),
                                a.updates, to_left)
        IN  IF ~e.ok
            THEN [ok |-> FALSE, root |-> root, updates |-> updates,
                  old |-> Unset, case |-> "none"]
            ELSE
            LET neighbour == Deref(root, e.parent_link)
                root1 == Store(root, parent_link,
                               [delnode EXCEPT !.data = neighbour.data])
                root2 == Store(root1, e.parent_link,
                               IF to_left THEN neighbour.left ELSE neighbour.right)
            IN  [ok |-> TRUE, root |-> root2, updates |-> e.updates,
                 old |-> delnode.data,
                 case |-> IF to_left THEN "predecessor" ELSE "successor"]

\* the structural edit of delete at the matching node *parent_link
delete_unlink(root, parent_link, updates) ==
    LET delnode == Deref(root, parent_link) IN
    IF delnode.balance <= 0 /\ delnode.right = NULL
    THEN [ok |-> TRUE, root |-> Store(root, parent_link, delnode.left),
          updates |-> updates, old |-> delnode.data, case |-> "unlink_left"]
    ELSE IF delnode.balance >= 0 /\ delnode.left = NULL
    THEN [ok |-> TRUE, root |-> Store(root, parent_link, delnode.right),
          updates |-> updates, old |-> delnode.data, case |-> "unlink_right"]
    ELSE delete_two_children(root, parent_link, updates)

RECURSIVE delete_updates_stop_on_zero(_, _)
\* the "Do updates" loop of delete leaving the loop after a rotation when the
\* new root of the rotated subtree has balance 0
delete_updates_stop_on_zero(root, updates) ==
    IF Len(updates) = 0 THEN root
    ELSE
    LET update == updates[Len(updates)]
        rest == SubSeq(updates, 1, Len(updates) - 1)
        n == Deref(root, update.node_ptr)
    IN  IF update.left
        THEN LET n1 == [n EXCEPT !.balance = @ + 1] IN
             IF n1.balance > 1
             THEN LET n2 == IF n1.right.balance < 0
                            THEN [n1 EXCEPT !.right = rumati_avl_rotate_right(@)]
                            ELSE n1
                      n3 == rumati_avl_rotate_left(n2)
                      root1 == Store(root, update.node_ptr, n3)
                  IN IF n3.balance = 0
                     THEN root1
                     ELSE delete_updates_stop_on_zero(root1, rest)
             ELSE IF n1.balance > 0
             THEN Store(root, update.node_ptr, n1)
             ELSE delete_updates_stop_on_zero(Store(root, update.node_ptr, n1), rest)
        ELSE LET n1 == [n EXCEPT !.balance = @ - 1] IN
             IF n1.balance < -1
             THEN LET n2 == IF n1.left.balance > 0
                            THEN [n1 EXCEPT !.left = rumati_avl_rotate_left(@)]
                            ELSE n1
                      n3 == rumati_avl_rotate_right(n2)
                      root1 == Store(root, update.node_ptr, n3)
                  IN IF n3.balance = 0
                     THEN root1
                     ELSE delete_updates_stop_on_zero(root1, rest)
             ELSE IF n1.balance < 0
             THEN Store(root, update.node_ptr, n1)
             ELSE delete_updates_stop_on_zero(Store(root, update.node_ptr, n1), rest)

RECURSIVE delete_updates_stop_on_even(_, _)
\* the "Do updates" loop of delete with the stop rule of put where no
\* rotation is due: it leaves the loop when the adjusted balance is 0
delete_updates_stop_on_even(root, updates) ==
    IF Len(updates) = 0 THEN root
    ELSE
    LET update == updates[Len(updates)]
        rest == SubSeq(updates, 1, Len(updates) - 1)
        n == Deref(root, update.node_ptr)
    IN  IF update.left
        THEN LET n1 == [n EXCEPT !.balance = @ + 1] IN
             IF n1.balance > 1
             THEN LET n2 == IF n1.right.balance < 0
                            THEN [n1 EXCEPT !.right = rumati_avl_rotate_right(@)]
                            ELSE n1
                      n3 == rumati_avl_rotate_left(n2)
                      root1 == Store(root, update.node_ptr, n3)
                  IN IF n3.balance <= 0 /\ n3.left.balance > 0
                     THEN root1
                     ELSE delete_updates_stop_on_even(root1, rest)
             ELSE IF n1.balance <= 0
             THEN Store(root, update.node_ptr, n1)
             ELSE delete_updates_stop_on_even(Store(root, update.node_ptr, n1), rest)
        ELSE LET n1 == [n EXCEPT !.balance = @ - 1] IN
             IF n1.balance < -1
             THEN LET n2 == IF n1.left.balance > 0
                            THEN [n1 EXCEPT !.left = rumati_avl_rotate_left(@)]
                            ELSE n1
                      n3 == rumati_avl_rotate_right(n2)
                      root1 == Store(root, update.node_ptr, n3)
                  IN IF n3.balance >= 0 /\ n3.right.balance < 0
                     THEN root1
                     ELSE delete_updates_stop_on_even(root1, rest)
             ELSE IF n1.balance >= 0
             THEN Store(root, update.node_ptr, n1)
             ELSE delete_updates_stop_on_even(Store(root, update.node_ptr, n1), rest)

RECURSIVE delete_updates(_, _)
\* the "Do updates" loop of delete
delete_updates(root, updates) ==
    IF Len(updates) = 0 THEN root
    ELSE
    LET update == updates[Len(updates)]
        rest == SubSeq(updates, 1, Len(updates) - 1)
        n == Deref(root, update.node_ptr)
    IN  IF update.left
        THEN LET n1 == [n EXCEPT !.balance = @ + 1] IN
             IF n1.balance > 1
             THEN LET n2 == IF n1.right.balance < 0
                            THEN [n1 EXCEPT !.right = rumati_avl_rotate_right(@)]
                            ELSE n1
                      n3 == rumati_avl_rotate_left(n2)
                      root1 == Store(root, update.node_ptr, n3)
                  IN IF n3.balance <= 0 /\ n3.left.balance > 0
                     THEN root1
                     ELSE delete_updates(root1, rest)
             ELSE IF n1.balance > 0
             THEN Store(root, update.node_ptr, n1)
             ELSE delete_updates(Store(root, update.node_ptr, n1), rest)
        ELSE LET n1 == [n EXCEPT !.balance = @ - 1] IN
             IF n1.balance < -1
             THEN LET n2 == IF n1.left.balance > 0
                            THEN [n1 EXCEPT !.left = rumati_avl_rotate_left(@)]
                            ELSE n1
                      n3 == rumati_avl_rotate_right(n2)
                      root1 == Store(root, update.node_ptr, n3)
                  IN IF n3.balance >= 0 /\ n3.right.balance < 0
                     THEN root1
                     ELSE delete_updates(root1, rest)
             ELSE IF n1.balance < 0
             THEN Store(root, update.node_ptr, n1)
             ELSE delete_updates(Store(root, update.node_ptr, n1), rest)

\* yields [root, err, old, case]: the tree, the return value, what the call
\* stores in *old_value (Unset when it stores nothing) and the branch taken
rumati_avl_delete(root, object) ==
    LET s == delete_search(root, object, <<>>, <<>>) IN
    IF s.end = "noent"
    THEN [root |-> root, err |-> "ENOENT", old |-> Unset, case |-> "none"]
    ELSE IF s.end = "toobig"
    THEN [root |-> root, err |-> "ETOOBIG", old |-> Unset, case |-> "none"]
    ELSE LET u == delete_unlink(root, s.parent_link, s.updates) IN
         IF ~u.ok
         THEN [root |-> root, err |-> "ETOOBIG", old |-> Unset, case |-> "none"]
         ELSE [root |-> delete_updates(u.root, u.updates),
               err |-> "OK", old |-> u.old, case |-> u.case]

(***************************************************************************)
(* Lookups.  Each yields the data pointer it returns, NULL for not found.  *)
(***************************************************************************)
RECURSIVE rumati_avl_get_from_wrong_turn(_, _)
\* the descent of get turning left for a greater key and right for a smaller
rumati_avl_get_from_wrong_turn(n, key) ==
    IF n = NULL THEN NULL
    ELSE LET cmp == comparator(key, n.data) IN
         IF cmp > 0 THEN rumati_avl_get_from_wrong_turn(n.left, key)
         ELSE IF cmp < 0 THEN rumati_avl_get_from_wrong_turn(n.right, key)
         ELSE n.data

RECURSIVE rumati_avl_get_from(_, _)
\* the while loop of get, from node n
rumati_avl_get_from(n, key) ==
    IF n = NULL THEN NULL
    ELSE LET cmp == comparator(key, n.data) IN
         IF cmp > 0 THEN rumati_avl_get_from(n.right, key)
         ELSE IF cmp < 0 THEN rumati_avl_get_from(n.left, key)
         ELSE n.data

rumati_avl_get(root, key) == rumati_avl_get_from(root, key)

RECURSIVE leftmost(_)
\* while (n->left != NULL) n = n->left
leftmost(n) == IF n.left = NULL THEN n ELSE leftmost(n.left)

RECURSIVE rightmost(_)
\* while (n->right != NULL) n = n->right
rightmost(n) == IF n.right = NULL THEN n ELSE rightmost(n.right)

\* the common tail of the nearest-neighbour lookups
prev_data(prev) == IF prev # NULL THEN prev.data ELSE NULL

RECURSIVE get_ge_from_forgets_prev(_, _, _)
\* the descent of get_greater_than_or_equal without "prev = n"
get_ge_from_forgets_prev(n, prev, key) ==
    IF n = NULL THEN prev_data(prev)
    ELSE LET cmp == comparator(key, n.data) IN
         IF cmp > 0 THEN get_ge_from_forgets_prev(n.right, prev, key)
         ELSE IF cmp < 0 THEN get_ge_from_forgets_prev(n.left, prev, key)
         ELSE n.data

RECURSIVE get_ge_from(_, _, _)
\* the while loop of get_greater_than_or_equal, from node n, and its tail
get_ge_from(n, prev, key) ==
    IF n = NULL THEN prev_data(prev)
    ELSE LET cmp == comparator(key, n.data) IN
         IF cmp > 0 THEN get_ge_from(n.right, prev, key)
         ELSE IF cmp < 0 THEN get_ge_from(n.left, n, key)
         ELSE n.data

rumati_avl_get_greater_than_or_equal(root, key) == get_ge_from(root, NULL, key)

RECURSIVE get_le_from(_, _, _)
\* the while loop of get_less_than_or_equal, from node n, and its tail
get_le_from(n, prev, key) ==
    IF n = NULL THEN prev_data(prev)
    ELSE LET cmp == comparator(key, n.data) IN
         IF cmp > 0 THEN get_le_from(n.right, n, key)
         ELSE IF cmp < 0 THEN get_le_from(n.left, prev, key)
         ELSE n.data

rumati_avl_get_less_than_or_equal(root, key) == get_le_from(root, NULL, key)

RECURSIVE get_gt_from_no_fallback(_, _, _)
\* the descent of get_greater_than returning NULL at a match without right child
get_gt_from_no_fallback(n, prev, key) ==
    IF n = NULL THEN prev_data(prev)
    ELSE LET cmp == comparator(key, n.data) IN
         IF cmp > 0 THEN get_gt_from_no_fallback(n.right, prev, key)
         ELSE IF cmp < 0 THEN get_gt_from_no_fallback(n.left, n, key)
         ELSE IF n.right = NULL THEN NULL
         ELSE leftmost(n.right).data

RECURSIVE get_gt_from(_, _, _)
\* the while loop of get_greater_than, from node n, and its tail
get_gt_from(n, prev, key) ==
    IF n = NULL THEN prev_data(prev)
    ELSE LET cmp == comparator(key, n.data) IN
         IF cmp > 0 THEN get_gt_from(n.right, prev, key)
         ELSE IF cmp < 0 THEN get_gt_from(n.left, n, key)
         ELSE IF n.right = NULL THEN prev_data(prev)
         ELSE leftmost(n.right).data

rumati_avl_get_greater_than(root, key) == get_gt_from(root, NULL, key)

RECURSIVE get_lt_from(_, _, _)
\* the while loop of get_less_than, from node n, and its tail
get_lt_from(n, prev, key) ==
    IF n = NULL THEN prev_data(prev)
    ELSE LET cmp == comparator(key, n.data) IN
         IF cmp > 0 THEN get_lt_from(n.right, n, key)
         ELSE IF cmp < 0 THEN get_lt_from(n.left, prev, key)
         ELSE IF n.left = NULL THEN prev_data(prev)
         ELSE rightmost(n.left).data

rumati_avl_get_less_than(root, key) == get_lt_from(root, NULL, key)

rumati_avl_get_smallest(root) ==
    IF root = NULL THEN NULL ELSE leftmost(root).data

rumati_avl_get_greatest(root) ==
    IF root = NULL THEN NULL ELSE rightmost(root).data

(***************************************************************************)
(* The passes of the "Do updates" loops, read off the loops themselves:    *)
(* a loop run on one entry makes one pass, and it has gone on to the next  *)
(* entry exactly when the tree after the pass is not yet the tree the      *)
(* whole loop ends with (every pass changes the node it visits, and no     *)
(* later pass comes back to it).                                           *)
(***************************************************************************)
RECURSIVE SubtreeHeight(_)
SubtreeHeight(n) ==
    IF n = NULL THEN 0
    ELSE LET Higher(a, b) == IF a > b THEN a ELSE b
         IN 1 + Higher(SubtreeHeight(n.left), SubtreeHeight(n.right))

\* the record of one pass over `update`, where delta is what the pass adds
\* to the balance: the link, the balance right after the adjustment, the
\* balance of the child on the side the node then leans to, the balance of
\* the node at the link after the pass, the height of the subtree at the
\* link before the call (in orig) and after the pass, whether an entry
\* remained (more) and whether the loop went on to it
Pass(orig, t, t1, update, delta, more, continued) ==
    LET Of(before, after) ==
            [link |-> update.node_ptr,
             left |-> update.left,
             updated |-> before.balance + delta,
             heavy |-> IF before.balance + delta < 0
                       THEN (IF before.left = NULL THEN 0 ELSE before.left.balance)
                       ELSE (IF before.right = NULL THEN 0 ELSE before.right.balance),
             after |-> after.balance,
             height_before |-> SubtreeHeight(Deref(orig, update.node_ptr)),
             height_after |-> SubtreeHeight(after),
             more |-> more,
             continued |-> continued]
    IN Of(Deref(t, update.node_ptr), Deref(t1, update.node_ptr))

RECURSIVE DeletePasses(_, _, _, _)
\* the passes of the loop of delete run on the tree t with the entries
\* updates, which ends with the tree final
DeletePasses(orig, t, updates, final) ==
    IF Len(updates) = 0 THEN <<>>
    ELSE LET last == Len(updates)
             \* t1: the tree after the pass over the last entry
             From(t1) ==
                 <<Pass(orig, t, t1, updates[last],
                        IF updates[last].left THEN 1 ELSE -1,
                        last > 1, last > 1 /\ t1 # final)>>
                 \o (IF last > 1 /\ t1 # final
                     THEN DeletePasses(orig, t1, SubSeq(updates, 1, last - 1),
                                       final)
                     ELSE <<>>)
         IN From(delete_updates(t, <<updates[last]>>))

\* the passes of the delete of object from the tree root0, which returns
\* with the tree final
DeleteTrace(root0, object, final) ==
    LET Unlinked(u) ==
            IF u.ok THEN DeletePasses(root0, u.root, u.updates, final) ELSE <<>>
        Found(s) ==
            IF s.end = "found"
            THEN Unlinked(delete_unlink(root0, s.parent_link, s.updates))
            ELSE <<>>
    IN Found(delete_search(root0, object, <<>>, <<>>))

RECURSIVE PutPasses(_, _, _, _)
PutPasses(orig, t, updates, final) ==
    IF Len(updates) = 0 THEN <<>>
    ELSE LET last == Len(updates)
             From(t1) ==
                 <<Pass(orig, t, t1, updates[last],
                        IF updates[last].left THEN -1 ELSE 1,
                        last > 1, last > 1 /\ t1 # final)>>
                 \o (IF last > 1 /\ t1 # final
                     THEN PutPasses(orig, t1, SubSeq(updates, 1, last - 1), final)
                     ELSE <<>>)
         IN From(put_updates(t, <<updates[last]>>))

\* the passes of the put of object into the tree root0, which returns with
\* the tree final
PutTrace(root0, object, malloc_ok, final) ==
    LET Ended(s) ==
            IF s.end = "null" /\ malloc_ok
            THEN PutPasses(root0, Store(root0, s.parent_link, NewNode(object)),
                           s.updates, final)
            ELSE <<>>
    IN Ended(put_search(root0, object, <<>>, <<>>))

(***************************************************************************)
(* Teardown.                                                               *)
(***************************************************************************)
RECURSIVE rumati_avl_destroy_node_recursive(_)
\* the data pointers handed to the destructor, in the order of the calls;
\* each of these nodes is free()d right after its destructor call
rumati_avl_destroy_node_recursive(n) ==
    (IF n.left # NULL THEN rumati_avl_destroy_node_recursive(n.left) ELSE <<>>)
    \o (IF n.right # NULL THEN rumati_avl_destroy_node_recursive(n.right) ELSE <<>>)
    \o <<n.data>>

\* yields [root, calls]: tree->root after the call and the destructor calls
rumati_avl_clear(root) ==
    [root |-> root,
     calls |-> IF root # NULL
               THEN rumati_avl_destroy_node_recursive(root) ELSE <<>>]

(***************************************************************************)
(* The state of one tree and of its caller.                                *)
(***************************************************************************)
VARIABLES
    root,           \* tree->root
    released,       \* nodes that tree->root leads to have been free()d
    status,         \* "alive", "destroyed" (handle freed), "crashed", or
                    \* "undefined" (a call with undefined behaviour returned)
    lastOp,         \* the last call: "new", "put", "delete", "clear", "destroy"
    lastArg,        \* its object argument (NULL when it has none)
    lastErr,        \* its return value ("void" when it has none)
    lastOld,        \* what it stored in the caller's *old_value
    lastCase,       \* the branch it took ("none" when it has none)
    destructed,     \* the destructor calls it made, in order
    touchedReleased, \* whether it dereferenced a node free()d earlier
    reference,      \* history variable, not program state: the objects a
                    \* plain set would hold after the same calls
    lastPasses      \* history variable: the passes of the last call's
                    \* "Do updates" loop, in the order it made them (kept
                    \* by SpecPasses only, empty elsewhere)

vars == <<root, released, status, lastOp, lastArg, lastErr, lastOld,
          lastCase, destructed, touchedReleased, reference, lastPasses>>

\* the keys to look up or delete: one object per key, none of them stored
Probes(O) == {[key |-> o.key, val |-> 0] : o \in O}

\* A call that dereferences a free()d node has undefined behaviour: it may
\* find the stale contents still in place and run on them, or fault.  The
\* model follows the program up to the return of such a call and no further.
Outcomes == IF released /\ root # NULL THEN {"stale", "fault"} ELSE {"defined"}

StatusAfter(outcome, s) == IF outcome = "stale" /\ s = "alive" THEN "undefined" ELSE s

Fault(op) ==
    /\ status' = "crashed"
    /\ lastOp' = op
    /\ lastArg' = NULL
    /\ lastErr' = "void"
    /\ lastOld' = Unset
    /\ lastCase' = "none"
    /\ destructed' = <<>>
    /\ touchedReleased' = TRUE
    /\ lastPasses' = <<>>
    /\ UNCHANGED <<root, released, reference>>

\* after rumati_avl_new() has succeeded
Init ==
    /\ root = NULL
    /\ released = FALSE
    /\ status = "alive"
    /\ lastOp = "new"
    /\ lastArg = NULL
    /\ lastErr = "OK"
    /\ lastOld = Unset
    /\ lastCase = "none"
    /\ destructed = <<>>
    /\ touchedReleased = FALSE
    /\ reference = {}
    /\ lastPasses = <<>>

\* what the set holds after a put or a delete that returned err
ReferencePut(set, object, err) ==
    IF err = "OK"
    THEN {o \in set : o.key # object.key} \cup {object}
    ELSE set

ReferenceDelete(set, object, err) ==
    IF err = "OK" THEN {o \in set : o.key # object.key} ELSE set

\* malloc() is called when the search of put ends at an absent link, and
\* may fail then
MallocOutcomes(object) ==
    IF put_search(root, object, <<>>, <<>>).end = "null" THEN BOOLEAN ELSE {TRUE}

\* the caller passes an old_value pointer that holds nothing yet; traced
\* tells whether the passes of the loop are kept in lastPasses
PutWith(object, traced) ==
    /\ status = "alive"
    /\ \E outcome \in Outcomes, malloc_ok \in MallocOutcomes(object) :
         IF outcome = "fault" THEN Fault("put")
         ELSE \E r \in {rumati_avl_put(root, object, TRUE, malloc_ok)} :
              /\ root' = r.root
              /\ reference' = ReferencePut(reference, object, r.err)
              /\ lastPasses' = IF traced
                                THEN PutTrace(root, object, malloc_ok, r.root)
                                ELSE <<>>
              /\ status' = StatusAfter(outcome, "alive")
              /\ lastOp' = "put"
              /\ lastArg' = object
              /\ lastErr' = r.err
              /\ lastOld' = r.old
              /\ lastCase' = r.case
              /\ destructed' = <<>>
              /\ touchedReleased' = (outcome = "stale")
              /\ UNCHANGED released

DeleteWith(object, traced) ==
    /\ status = "alive"
    /\ \E outcome \in Outcomes :
         IF outcome = "fault" THEN Fault("delete")
         ELSE \E r \in {rumati_avl_delete(root, object)} :
              /\ root' = r.root
              /\ reference' = ReferenceDelete(reference, object, r.err)
              /\ lastPasses' = IF traced
                                THEN DeleteTrace(root, object, r.root)
                                ELSE <<>>
              /\ status' = StatusAfter(outcome, "alive")
              /\ lastOp' = "delete"
              /\ lastArg' = object
              /\ lastErr' = r.err
              /\ lastOld' = r.old
              /\ lastCase' = r.case
              /\ destructed' = <<>>
              /\ touchedReleased' = (outcome = "stale")
              /\ UNCHANGED released

\* the effect clear and destroy share; destroy also frees the handle
Teardown(op, status_after) ==
    /\ status = "alive"
    /\ \E outcome \in Outcomes :
         IF outcome = "fault" THEN Fault(op)
         ELSE \E r \in {rumati_avl_clear(root)} :
              /\ root' = r.root
              /\ released' = (released \/ root # NULL)
              /\ status' = StatusAfter(outcome, status_after)
              /\ lastOp' = op
              /\ lastArg' = NULL
              /\ lastErr' = "void"
              /\ lastOld' = Unset
              /\ lastCase' = "none"
              /\ destructed' = r.calls
              /\ touchedReleased' = (outcome = "stale")
              /\ reference' = {}
              /\ lastPasses' = <<>>

Clear == Teardown("clear", "alive")

Destroy == Teardown("destroy", "destroyed")

Put(object) == PutWith(object, FALSE)

Delete(object) == DeleteWith(object, FALSE)

PutAny(O) == \E object \in O : Put(object)

DeleteAny(O) == \E object \in Probes(O) : Delete(object)

PutTraced == \E object \in PassObjects : PutWith(object, TRUE)

DeleteTraced == \E object \in Probes(PassObjects) : DeleteWith(object, TRUE)

Next ==
    \/ PutAny(Objects)
    \/ DeleteAny(Objects)
    \/ Clear
    \/ Destroy

Spec == Init /\ [][Next]_vars

NextDeep ==
    \/ PutAny(DeepObjects)
    \/ DeleteAny(DeepObjects)
    \/ Clear
    \/ Destroy

SpecDeep == Init /\ [][NextDeep]_vars

NextPasses ==
    \/ PutTraced
    \/ DeleteTraced
    \/ Clear
    \/ Destroy

SpecPasses == Init /\ [][NextPasses]_vars

(***************************************************************************)
(* The rotations on their own: every subtree of two nodes with three       *)
(* balanced subtrees hung on them, the stored balances being the height    *)
(* differences, is rotated once.                                           *)
(***************************************************************************)
Node(l, r, b) ==
    [left |-> l, right |-> r, balance |-> b, data |-> [key |-> 0, val |-> 1]]

\* the balanced trees of height h, every balance the height difference
BalancedOfHeight[h \in 0..MaxSubtreeHeight] ==
    IF h = 0 THEN {NULL}
    ELSE IF h = 1 THEN {Node(NULL, NULL, 0)}
    ELSE {Node(l, r, 0) : l \in BalancedOfHeight[h - 1],
                          r \in BalancedOfHeight[h - 1]}
         \cup {Node(l, r, -1) : l \in BalancedOfHeight[h - 1],
                                r \in BalancedOfHeight[h - 2]}
         \cup {Node(l, r, 1) : l \in BalancedOfHeight[h - 2],
                               r \in BalancedOfHeight[h - 1]}

BalancedSubtrees == UNION {BalancedOfHeight[h] : h \in 0..MaxSubtreeHeight}

\* a node over the subtrees l and r with the balance their heights give
Over(l, r) == Node(l, r, SubtreeHeight(r) - SubtreeHeight(l))

RECURSIVE CountNodes(_)
CountNodes(n) == IF n = NULL THEN 0 ELSE 1 + CountNodes(n.left) + CountNodes(n.right)

RECURSIVE Numbered(_, _)
\* the tree n with the keys base + 1, base + 2, ... in order
Numbered(n, base) ==
    IF n = NULL THEN NULL
    ELSE [left |-> Numbered(n.left, base),
          right |-> Numbered(n.right, base + CountNodes(n.left) + 1),
          balance |-> n.balance,
          data |-> [key |-> base + CountNodes(n.left) + 1, val |-> 1]]

\* what a rotation is called on while a tree is rebalanced: the old root
\* leans by two at most, and so does the child that is promoted
RotationInputs ==
    {Numbered(t, 0) :
        t \in {t \in {Over(Over(a, b), c) : a, b, c \in BalancedSubtrees}
                     \cup {Over(a, Over(b, c)) : a, b, c \in BalancedSubtrees} :
                 /\ t.balance \in -2..2
                 /\ t.left # NULL => t.left.balance \in -2..2
                 /\ t.right # NULL => t.right.balance \in -2..2}}

RotateInit ==
    /\ root \in RotationInputs
    /\ released = FALSE
    /\ status = "alive"
    /\ lastOp = "new"
    /\ lastArg = NULL
    /\ lastErr = "OK"
    /\ lastOld = Unset
    /\ lastCase = "none"
    /\ destructed = <<>>
    /\ touchedReleased = FALSE
    /\ reference = {}
    /\ lastPasses = <<>>

RotateRight ==
    /\ lastOp = "new"
    /\ root.left # NULL
    /\ root' = rumati_avl_rotate_right(root)
    /\ lastOp' = "rotate_right"
    /\ UNCHANGED <<released, status, lastArg, lastErr, lastOld, lastCase,
                   destructed, touchedReleased, reference, lastPasses>>

RotateLeft ==
    /\ lastOp = "new"
    /\ root.right # NULL
    /\ root' = rumati_avl_rotate_left(root)
    /\ lastOp' = "rotate_left"
    /\ UNCHANGED <<released, status, lastArg, lastErr, lastOld, lastCase,
                   destructed, touchedReleased, reference, lastPasses>>

NextRotate ==
    \/ RotateRight
    \/ RotateLeft

SpecRotate == RotateInit /\ [][NextRotate]_vars

(***************************************************************************)
(* What the properties are stated with: the tree measured from its shape.  *)
(***************************************************************************)
Max(a, b) == IF a > b THEN a ELSE b

RECURSIVE Height(_)
Height(n) == IF n = NULL THEN 0 ELSE 1 + Max(Height(n.left), Height(n.right))

RECURSIVE Size(_)
Size(n) == IF n = NULL THEN 0 ELSE 1 + Size(n.left) + Size(n.right)

RECURSIVE InOrder(_)
InOrder(n) ==
    IF n = NULL THEN <<>> ELSE InOrder(n.left) \o <<n.data>> \o InOrder(n.right)

RECURSIVE Contents(_)
Contents(n) ==
    IF n = NULL THEN {} ELSE Contents(n.left) \cup {n.data} \cup Contents(n.right)

KeysOf(n) == {o.key : o \in Contents(n)}

\* a sequence of put and delete calls on a fresh tree has led here
Usable == status = "alive" /\ ~released

RECURSIVE Balanced(_)
Balanced(n) ==
    \/ n = NULL
    \/ /\ n.balance \in {-1, 0, 1}
       /\ n.balance = Height(n.right) - Height(n.left)
       /\ Balanced(n.left)
       /\ Balanced(n.right)

RECURSIVE Ordered(_)
Ordered(n) ==
    \/ n = NULL
    \/ /\ \A k \in KeysOf(n.left) : k < n.data.key
       /\ \A k \in KeysOf(n.right) : k > n.data.key
       /\ Ordered(n.left)
       /\ Ordered(n.right)

StrictlyIncreasing(s) ==
    \A i \in 1..(Len(s) - 1) : comparator(s[i], s[i + 1]) < 0

(***************************************************************************)
(* C1: after every completed put or delete, every node's stored balance is *)
(* -1, 0 or +1 and is the height of its right subtree minus the height of  *)
(* its left subtree, as measured from the shape of the tree.               *)
(***************************************************************************)
C1_BalanceInvariant == Usable => Balanced(root)

\* a delete has left a tree of height 4 that leans to one side
C1_Witness ==
    /\ Usable
    /\ lastOp = "delete"
    /\ lastErr = "OK"
    /\ Height(root) = 4
    /\ root.balance # 0

(***************************************************************************)
(* C2: after any sequence of puts and deletes the in-order traversal       *)
(* yields strictly increasing keys: at every node the keys of the left     *)
(* subtree are smaller, those of the right subtree greater, and no key     *)
(* occurs twice.                                                           *)
(***************************************************************************)
C2_OrderInvariant ==
    Usable => (Ordered(root) /\ StrictlyIncreasing(InOrder(root)))

\* a delete has filled a node from a neighbour in a tree of five nodes or more
C2_Witness ==
    /\ Usable
    /\ lastOp = "delete"
    /\ lastCase \in {"predecessor", "successor"}
    /\ Size(root) >= 5

(***************************************************************************)
(* C3: the tree is a map.  After any sequence of puts and deletes, get of  *)
(* a key returns the object a plain set holds under that key after the     *)
(* same successful calls (the object put last, if not deleted since), and  *)
(* NULL for every key the set does not hold.                               *)
(***************************************************************************)
ReferenceGet(set, q) ==
    IF \E o \in set : o.key = q.key
    THEN CHOOSE o \in set : o.key = q.key
    ELSE NULL

C3_MapRefinement ==
    Usable =>
        \A q \in Probes(Objects) :
            rumati_avl_get(root, q) = ReferenceGet(reference, q)

\* a key was deleted while another key holds a value that replaced an earlier one
C3_Witness ==
    /\ Usable
    /\ lastOp = "delete"
    /\ lastErr = "OK"
    /\ rumati_avl_get(root, lastArg) = NULL
    /\ \E o \in Objects : o.val = 2 /\ rumati_avl_get(root, o) = o
    /\ Size(root) >= 3

(***************************************************************************)
(* C4: a put whose key is stored replaces that node's data in place,       *)
(* stores the previous data in *old_value, and changes nothing else: the   *)
(* number of nodes, every link and every balance stay as they were.        *)
(***************************************************************************)
StoredUnder(n, k) == CHOOSE o \in Contents(n) : o.key = k

RECURSIVE Relabel(_, _)
\* the tree n with the data of the node that holds object's key set to object
Relabel(n, object) ==
    IF n = NULL THEN NULL
    ELSE [left |-> Relabel(n.left, object),
          right |-> Relabel(n.right, object),
          balance |-> n.balance,
          data |-> IF n.data.key = object.key THEN object ELSE n.data]

C4_ReplaceInPlace ==
    [][(Usable /\ Usable' /\ lastOp' = "put" /\ lastArg'.key \in KeysOf(root))
        => /\ lastErr' = "OK"
           /\ lastOld' = StoredUnder(root, lastArg'.key)
           /\ root' = Relabel(root, lastArg')
           /\ Size(root') = Size(root)]_vars

\* a put has replaced a different value in a tree of three nodes or more
C4_Witness ==
    /\ Usable
    /\ lastCase = "replace"
    /\ lastOld \in Objects
    /\ lastOld # lastArg
    /\ Size(root) >= 3

(***************************************************************************)
(* C5: a successful delete of key k stores in *old_value the data that was *)
(* stored under k, and afterwards the tree holds what it held before       *)
(* without that one object: no other key is lost, added or changed.        *)
(***************************************************************************)
C5_DeleteReportsAndRemoves ==
    [][(Usable /\ Usable' /\ lastOp' = "delete" /\ lastErr' = "OK")
        => /\ lastArg'.key \in KeysOf(root)
           /\ lastOld' = StoredUnder(root, lastArg'.key)
           /\ Contents(root') = Contents(root) \ {lastOld'}
           /\ Size(root') = Size(root) - 1
           /\ \A q \in Probes(Objects) :
                q.key # lastArg'.key
                    => rumati_avl_get(root', q) = rumati_avl_get(root, q)]_vars

\* a delete has filled the node of its key with the data of the predecessor
C5_Witness ==
    /\ Usable
    /\ lastOp = "delete"
    /\ lastErr = "OK"
    /\ lastCase = "predecessor"
    /\ lastOld.val = 2

\* a delete has unlinked the node of its key directly
C5_WitnessDirect ==
    /\ Usable
    /\ lastOp = "delete"
    /\ lastErr = "OK"
    /\ lastCase \in {"unlink_left", "unlink_right"}
    /\ Size(root) >= 2

(***************************************************************************)
(* C6: when put or delete returns an error, which is ENOMEM, ETOOBIG or    *)
(* ENOENT, tree->root and everything it leads to is as before the call.    *)
(***************************************************************************)
C6_ErrorsLeaveTreeUnchanged ==
    [][(Usable /\ lastOp' \in {"put", "delete"} /\ lastErr' # "OK")
        => /\ lastErr' \in {"ENOMEM", "ETOOBIG", "ENOENT"}
           /\ root' = root]_vars

\* a delete has returned ETOOBIG
C6_Witness ==
    /\ Usable
    /\ lastOp = "delete"
    /\ lastErr = "ETOOBIG"

\* a put has returned ETOOBIG, a put ENOMEM, a delete ENOENT on an empty tree
C6_WitnessPutTooBig == Usable /\ lastOp = "put" /\ lastErr = "ETOOBIG"
C6_WitnessNoMem == Usable /\ lastOp = "put" /\ lastErr = "ENOMEM" /\ root # NULL
C6_WitnessNoEnt == Usable /\ lastOp = "delete" /\ lastErr = "ENOENT" /\ root = NULL

(***************************************************************************)
(* C7: a clear or destroy calls the destructor exactly once for each value *)
(* stored in the tree at that moment (none when the tree is empty or its   *)
(* nodes were released by an earlier clear) and never reaches a node that  *)
(* was released earlier.                                                   *)
(***************************************************************************)
Count(s, x) == Cardinality({i \in 1..Len(s) : s[i] = x})

IsPermutation(s, t) ==
    /\ Len(s) = Len(t)
    /\ \A i \in 1..Len(t) : Count(s, t[i]) = Count(t, t[i])

\* the values the tree stores: none once its nodes have been released
StoredAtTeardown == IF released THEN <<>> ELSE InOrder(root)

C7_DestructorOncePerValue ==
    [][(status = "alive" /\ lastOp' \in {"clear", "destroy"})
        => /\ ~touchedReleased'
           /\ IsPermutation(destructed', StoredAtTeardown)]_vars

(***************************************************************************)
(* C8: after clear returns the tree is empty: tree->root is NULL, every    *)
(* lookup finds nothing and get_smallest and get_greatest return NULL.     *)
(***************************************************************************)
C8_ClearEmptiesTree ==
    (status = "alive" /\ lastOp = "clear")
        => /\ root = NULL
           /\ \A q \in Probes(Objects) : rumati_avl_get(root, q) = NULL
           /\ rumati_avl_get_smallest(root) = NULL
           /\ rumati_avl_get_greatest(root) = NULL

(***************************************************************************)
(* C9: get_greater_than_or_equal(q) returns the stored object with the     *)
(* smallest key >= q, get_less_than_or_equal(q) the one with the largest   *)
(* key <= q, NULL exactly when there is none; both return the object       *)
(* stored under q when there is one.                                       *)
(***************************************************************************)
\* the object of the set c with the smallest (largest) key, NULL if c is empty
Smallest(c) ==
    IF c = {} THEN NULL ELSE CHOOSE o \in c : \A p \in c : o.key <= p.key

Greatest(c) ==
    IF c = {} THEN NULL ELSE CHOOSE o \in c : \A p \in c : o.key >= p.key

C9_InclusiveNeighbours ==
    Usable =>
        LET stored == Contents(root) IN
        \A q \in Probes(DeepObjects) :
            /\ rumati_avl_get_greater_than_or_equal(root, q)
                   = Smallest({o \in stored : o.key >= q.key})
            /\ rumati_avl_get_less_than_or_equal(root, q)
                   = Greatest({o \in stored : o.key <= q.key})
            /\ \A o \in stored :
                   o.key = q.key
                   => /\ rumati_avl_get_greater_than_or_equal(root, q) = o
                      /\ rumati_avl_get_less_than_or_equal(root, q) = o

\* a tree of height 3 or more and a key that is not stored but has stored
\* neighbours on both sides
C9_Witness ==
    /\ Usable
    /\ Height(root) >= 3
    /\ \E q \in Probes(DeepObjects) :
          /\ q.key \notin KeysOf(root)
          /\ rumati_avl_get_greater_than_or_equal(root, q) \in DeepObjects
          /\ rumati_avl_get_less_than_or_equal(root, q) \in DeepObjects

(***************************************************************************)
(* C10: get_greater_than(q) returns the stored object with the smallest    *)
(* key > q and get_less_than(q) the one with the largest key < q, never    *)
(* the object stored under q, and NULL exactly when there is none.         *)
(***************************************************************************)
C10_StrictNeighbours ==
    Usable =>
        LET stored == Contents(root) IN
        \A q \in Probes(DeepObjects) :
            /\ rumati_avl_get_greater_than(root, q)
                   = Smallest({o \in stored : o.key > q.key})
            /\ rumati_avl_get_less_than(root, q)
                   = Greatest({o \in stored : o.key < q.key})

\* the key of the root's left child, which has no right child, is looked up:
\* its strict successor is the root, recorded during the descent
C10_Witness ==
    /\ Usable
    /\ root # NULL
    /\ root.left # NULL
    /\ root.left.right = NULL
    /\ rumati_avl_get_greater_than(root, root.left.data) = root.data

\* a tree of one node is asked for the strict neighbours of its own key
C10_WitnessSingle ==
    /\ Usable
    /\ root # NULL
    /\ root.left = NULL
    /\ root.right = NULL
    /\ rumati_avl_get_greater_than(root, root.data) = NULL
    /\ rumati_avl_get_less_than(root, root.data) = NULL
    /\ rumati_avl_get_greater_than_or_equal(root, root.data) = root.data

\* a put that added a node, or a delete that removed one, has just returned
AfterInsert == Usable /\ lastOp = "put" /\ lastCase = "insert"

AfterDelete == Usable /\ lastOp = "delete" /\ lastErr = "OK"

\* the pass adjusted the balance to +2 or -2 and rotated
Rotated(p) == p.updated \in {-2, 2}

(***************************************************************************)
(* C11 (as amended): in the propagation of delete, after an ancestor's     *)
(* balance has reached +2 or -2 and the rotation is applied, propagation   *)
(* stops exactly when the new balance of the rotated subtree's root is +1  *)
(* or -1 (the subtree is as high as before the delete), and goes on to the *)
(* next ancestor when that balance is 0 (the subtree is one lower).        *)
(***************************************************************************)
C11_RotationStopRule ==
    AfterDelete =>
        \A i \in DOMAIN lastPasses :
            \A p \in {lastPasses[i]} :
                Rotated(p) =>
                    /\ p.after \in {-1, 0, 1}
                    /\ (p.after # 0) <=> (p.height_after = p.height_before)
                    /\ (p.after = 0) <=> (p.height_after = p.height_before - 1)
                    /\ p.more => (p.continued <=> p.after = 0)

\* C11 as stated: after the rotation propagation stops exactly when the new
\* balance of the rotated subtree's root is 0, the height then being
\* unchanged, and goes on when it is +1 or -1, the height then being one less
C11_AsStated ==
    AfterDelete =>
        \A i \in DOMAIN lastPasses :
            \A p \in {lastPasses[i]} :
                Rotated(p) =>
                    /\ (p.after = 0) => (p.height_after = p.height_before)
                    /\ (p.after # 0) => (p.height_after = p.height_before - 1)
                    /\ p.more => (p.continued <=> p.after # 0)

\* a delete rotated below the root, the new subtree root leans and the loop
\* stopped there
C11_Witness ==
    /\ AfterDelete
    /\ \E i \in DOMAIN lastPasses :
          /\ Rotated(lastPasses[i])
          /\ lastPasses[i].more
          /\ lastPasses[i].after # 0
          /\ ~lastPasses[i].continued

\* a delete rotated below the root, the new subtree root is even and the loop
\* went on to the next ancestor
C11_WitnessContinued ==
    /\ AfterDelete
    /\ \E i \in DOMAIN lastPasses :
          /\ Rotated(lastPasses[i])
          /\ lastPasses[i].more
          /\ lastPasses[i].after = 0
          /\ lastPasses[i].continued

(***************************************************************************)
(* C12: in a put of a new key the propagation walks the recorded ancestors *)
(* bottom-up; it goes on only past an ancestor that went from 0 to +1 or   *)
(* -1 and stops at the first ancestor whose updated balance is 0 or has    *)
(* reached +2 or -2, which it rebalances by a single or double rotation.   *)
(* At the stop point the subtree is as high as before the put, at most one *)
(* ancestor is rebalanced this way per put, and every ancestor above the   *)
(* stop point keeps its balance.                                           *)
(***************************************************************************)
\* the pass stopped the propagation of a put
PutStopPoint(p) == p.updated = 0 \/ Rotated(p)

\* the links of the ancestors above the link
LinksAbove(link) == {SubSeq(link, 1, k) : k \in 0..(Len(link) - 1)}

C12_PutPropagation ==
    [][AfterInsert' =>
        \A tr \in {lastPasses'} :
          /\ \A i \in DOMAIN tr :
               \A p \in {tr[i]} :
                 \* bottom-up, one recorded ancestor after the other
                 /\ i > 1 => tr[i - 1].continued
                 /\ i > 1 => p.link = SubSeq(tr[i - 1].link, 1, Len(p.link))
                 /\ i > 1 => Len(p.link) = Len(tr[i - 1].link) - 1
                 /\ (i = Len(tr)) <=> ~p.continued
                 /\ Deref(root, p.link) # NULL
                 \* where it stops and where it goes on
                 /\ p.updated \in {-2, -1, 0, 1, 2}
                 /\ p.continued => p.updated = (IF p.left THEN -1 ELSE 1)
                 /\ p.more => (p.continued <=> ~PutStopPoint(p))
                 /\ PutStopPoint(p) =>
                      /\ p.height_after = p.height_before
                      /\ \A l \in LinksAbove(p.link) :
                           Deref(root', l).balance = Deref(root, l).balance
                 /\ ~PutStopPoint(p) => p.height_after = p.height_before + 1
          /\ Cardinality({i \in DOMAIN tr : Rotated(tr[i])}) <= 1
          \* the first pass is at the parent of the new node
          /\ \A s \in {put_search(root, lastArg', <<>>, <<>>)} :
               /\ Len(tr) >= 1 <=> Len(s.parent_link) >= 1
               /\ Len(tr) >= 1 => Len(tr[1].link) = Len(s.parent_link) - 1]_vars

\* a put went past the parent of the new node, rebalanced the grandparent and
\* left the ancestor above it alone
C12_Witness ==
    /\ AfterInsert
    /\ Len(lastPasses) = 2
    /\ lastPasses[1].continued
    /\ Rotated(lastPasses[2])
    /\ lastPasses[2].more

\* a put stopped at an ancestor that became even, below the root
C12_WitnessEven ==
    /\ AfterInsert
    /\ Len(lastPasses) >= 2
    /\ lastPasses[Len(lastPasses)].updated = 0
    /\ lastPasses[Len(lastPasses)].more

\* a put went past every recorded ancestor up to the root
C12_WitnessToRoot ==
    /\ AfterInsert
    /\ Len(lastPasses) = 3
    /\ lastPasses[3].updated \in {-1, 1}

(***************************************************************************)
(* C13: in the propagation of delete, where no rotation is due, an         *)
(* ancestor whose adjusted balance becomes +1 or -1 (from 0) has a subtree *)
(* as high as before the delete and the propagation stops there; an        *)
(* ancestor whose adjusted balance becomes 0 has a subtree one lower than  *)
(* before and the propagation goes on to the next recorded ancestor.  The  *)
(* side the node was removed under sets the sign: left adds one, right     *)
(* takes one away.                                                         *)
(***************************************************************************)
C13_DeletePropagation ==
    AfterDelete =>
        \A i \in DOMAIN lastPasses :
            \A p \in {lastPasses[i]} :
                /\ p.updated \in {-2, -1, 0, 1, 2}
                /\ p.updated \in {-1, 1} =>
                     /\ p.updated = (IF p.left THEN 1 ELSE -1)
                     /\ p.after = p.updated
                     /\ p.height_after = p.height_before
                     /\ ~p.continued
                /\ p.updated = 0 =>
                     /\ p.after = 0
                     /\ p.height_after = p.height_before - 1
                     /\ p.more => p.continued

\* a delete made an ancestor even, went on and stopped at the next ancestor,
\* which came to lean, below the root
C13_Witness ==
    /\ AfterDelete
    /\ Len(lastPasses) = 2
    /\ lastPasses[1].updated = 0
    /\ lastPasses[1].continued
    /\ lastPasses[2].updated \in {-1, 1}
    /\ lastPasses[2].more

\* a delete made every recorded ancestor up to the root even
C13_WitnessToRoot ==
    /\ AfterDelete
    /\ Len(lastPasses) = 3
    /\ \A i \in 1..3 : lastPasses[i].updated = 0

(***************************************************************************)
(* C14: on every subtree whose stored balances are the height differences  *)
(* (the root leaning by up to two, and so the child that is promoted, as   *)
(* in the middle of a double rotation) rotate_right and rotate_left keep   *)
(* the in-order sequence, make the former child the root of the subtree,   *)
(* set the stored balances of the two nodes that moved to their height     *)
(* differences and change no other node.                                   *)
(***************************************************************************)
RECURSIVE TrueBalances(_)
TrueBalances(n) ==
    \/ n = NULL
    \/ /\ n.balance = Height(n.right) - Height(n.left)
       /\ TrueBalances(n.left)
       /\ TrueBalances(n.right)

TrueBalance(n) == n.balance = Height(n.right) - Height(n.left)

C14_RotationsKeepBalances ==
    [][(TrueBalances(root) /\ lastOp' \in {"rotate_right", "rotate_left"}) =>
        /\ InOrder(root') = InOrder(root)
        /\ lastOp' = "rotate_right" =>
             /\ root'.data = root.left.data
             /\ root'.right.data = root.data
             /\ root'.left = root.left.left
             /\ root'.right.left = root.left.right
             /\ root'.right.right = root.right
             /\ TrueBalance(root'.right)
        /\ lastOp' = "rotate_left" =>
             /\ root'.data = root.right.data
             /\ root'.left.data = root.data
             /\ root'.right = root.right.right
             /\ root'.left.right = root.right.left
             /\ root'.left.left = root.left
             /\ TrueBalance(root'.left)
        /\ TrueBalance(root')]_vars

\* rotate_right has levelled a subtree of three levels that leant left by two
C14_Witness ==
    /\ lastOp = "rotate_right"
    /\ Height(root) = 3
    /\ root.balance = 0
    /\ root.right.balance = 0
    /\ root.right.left # NULL

\* rotate_left has promoted a child that now leans left by two, as the first
\* half of a double rotation does
C14_WitnessMidDouble ==
    /\ lastOp = "rotate_left"
    /\ root.balance = -2
    /\ TrueBalances(root)

(***************************************************************************)
(* C15: a delete of a key whose node has two children keeps that node in   *)
(* place and fills it with the in-order successor's value (leftmost of the *)
(* right subtree) when the node's balance is >= 0, with the predecessor's  *)
(* (rightmost of the left subtree) when it is < 0, and unlinks the         *)
(* neighbour's node instead.  Deleting 25 from the tree built from         *)
(* 50,25,75,10,30,60,90 (here the keys 4,2,6,1,3,5,7, in the same order)   *)
(* leaves 10 and 30 retrievable, 25 not found and the tree balanced.       *)
(***************************************************************************)
RECURSIVE LeftmostData(_)
LeftmostData(n) == IF n.left = NULL THEN n.data ELSE LeftmostData(n.left)

RECURSIVE RightmostData(_)
RightmostData(n) == IF n.right = NULL THEN n.data ELSE RightmostData(n.right)

RECURSIVE WithoutLeftmost(_)
WithoutLeftmost(n) ==
    IF n.left = NULL THEN n.right
    ELSE [n EXCEPT !.left = WithoutLeftmost(n.left)]

RECURSIVE WithoutRightmost(_)
WithoutRightmost(n) ==
    IF n.right = NULL THEN n.left
    ELSE [n EXCEPT !.right = WithoutRightmost(n.right)]

\* the node n filled from its neighbour, every other field and node as it was
FilledFromNeighbour(n) ==
    IF n.balance >= 0
    THEN [n EXCEPT !.data = LeftmostData(n.right),
                   !.right = WithoutLeftmost(n.right)]
    ELSE [n EXCEPT !.data = RightmostData(n.left),
                   !.left = WithoutRightmost(n.left)]

PerfectTree(lo, mid, hi) ==
    [left |-> lo, right |-> hi, balance |-> 0, data |-> [key |-> mid, val |-> 1]]

\* the tree the puts of 4, 2, 6, 1, 3, 5, 7 build
ScenarioTree ==
    PerfectTree(PerfectTree(PerfectTree(NULL, 1, NULL), 2,
                            PerfectTree(NULL, 3, NULL)),
                4,
                PerfectTree(PerfectTree(NULL, 5, NULL), 6,
                            PerfectTree(NULL, 7, NULL)))

C15_TwoChildrenDelete ==
    [][(Usable /\ lastOp' = "delete" /\ lastErr' = "OK") =>
        \A s \in {delete_search(root, lastArg', <<>>, <<>>)} :
          \A n \in {Deref(root, s.parent_link)} :
            (n.left # NULL /\ n.right # NULL) =>
              /\ lastCase' = (IF n.balance >= 0 THEN "successor" ELSE "predecessor")
              /\ lastOld' = n.data
              \* the tree before the balances are brought up to date
              /\ delete_unlink(root, s.parent_link, s.updates).root
                     = Store(root, s.parent_link, FilledFromNeighbour(n))
              /\ root' = delete_updates(
                             Store(root, s.parent_link, FilledFromNeighbour(n)),
                             delete_unlink(root, s.parent_link, s.updates).updates)
              /\ rumati_avl_get(root', lastArg') = NULL
              /\ rumati_avl_get(root', LeftmostData(n.right)) = LeftmostData(n.right)
              /\ rumati_avl_get(root', RightmostData(n.left)) = RightmostData(n.left)
              /\ Balanced(root')
              /\ (root = ScenarioTree /\ lastArg'.key = 2) =>
                   /\ lastCase' = "successor"
                   /\ KeysOf(root') = {1, 3, 4, 5, 6, 7}
                   /\ root'.left.data.key = 3]_vars

\* the scenario: 25 (here 2) deleted from the tree of seven, its node now
\* holds 30 (here 3) over 10 (here 1)
C15_Witness ==
    /\ AfterDelete
    /\ lastArg.key = 2
    /\ lastCase = "successor"
    /\ root = [ScenarioTree EXCEPT
                 !.left = [left |-> PerfectTree(NULL, 1, NULL), right |-> NULL,
                           balance |-> -1, data |-> [key |-> 3, val |-> 1]]]

\* a node that leant left was filled from its predecessor
C15_WitnessPredecessor ==
    /\ AfterDelete
    /\ lastCase = "predecessor"
    /\ Size(root) >= 4

(***************************************************************************)
(* C16: during a put, whenever an ancestor's balance reaches -2 (or +2)    *)
(* the balance of its left (or right) child is not 0 at that moment, so    *)
(* the choice between the single and the double rotation, made from the    *)
(* sign of that child's balance, leaves the root of the rotated subtree    *)
(* with balance 0.                                                         *)
(***************************************************************************)
C16_HeavyChildNeverEven ==
    AfterInsert =>
        \A i \in DOMAIN lastPasses :
            \A p \in {lastPasses[i]} :
                Rotated(p) =>
                    /\ p.heavy \in {-1, 1}
                    /\ p.after = 0

\* a put has made an ancestor lean left by two over a child leaning right:
\* the double rotation
C16_Witness ==
    /\ AfterInsert
    /\ \E i \in DOMAIN lastPasses :
          /\ lastPasses[i].updated = -2
          /\ lastPasses[i].heavy = 1
          /\ lastPasses[i].after = 0

\* a put has made an ancestor lean right by two over a child leaning right:
\* the single rotation
C16_WitnessSingle ==
    /\ AfterInsert
    /\ \E i \in DOMAIN lastPasses :
          /\ lastPasses[i].updated = 2
          /\ lastPasses[i].heavy = 1
          /\ lastPasses[i].after = 0

(***************************************************************************)
(* C17: in put and delete number_of_updates never exceeds                  *)
(* RUMATI_AVL_MAX_HEIGHT - 1, every write into update[] has an index below *)
(* RUMATI_AVL_MAX_HEIGHT, and a descent that needs one entry more returns  *)
(* RUMATI_AVL_ETOOBIG instead of writing.  (UpdateCapacity is              *)
(* RUMATI_AVL_MAX_HEIGHT cut down to the bound of the model.)              *)
(***************************************************************************)
RECURSIVE NodesAbove(_, _)
\* the nodes the search for key visits before it ends at a match or a NULL
NodesAbove(n, key) ==
    IF n = NULL \/ n.data.key = key THEN 0
    ELSE 1 + NodesAbove(IF key < n.data.key THEN n.left ELSE n.right, key)

RECURSIVE NodeUnder(_, _)
\* the node where the search for key ends, NULL if it finds none
NodeUnder(n, key) ==
    IF n = NULL \/ n.data.key = key THEN n
    ELSE NodeUnder(IF key < n.data.key THEN n.left ELSE n.right, key)

RECURSIVE RightSpine(_)
RightSpine(n) == IF n = NULL THEN 0 ELSE 1 + RightSpine(n.right)

RECURSIVE LeftSpine(_)
LeftSpine(n) == IF n = NULL THEN 0 ELSE 1 + LeftSpine(n.left)

\* the entries the descent of put needs: one for every node above
PutNeeds(n, key) == NodesAbove(n, key)

\* the entries the descent of delete needs: one for every node above and,
\* when the node has two children, one for the node and one for every node
\* above the neighbour it is filled from
DeleteNeeds(n, key) ==
    LET At(m) ==
            IF m = NULL \/ m.left = NULL \/ m.right = NULL THEN 0
            ELSE IF m.balance < 0 THEN RightSpine(m.left)
            ELSE LeftSpine(m.right)
    IN NodesAbove(n, key) + At(NodeUnder(n, key))

\* the path record when the descent of the call ends
PutRecord(n, object) == put_search(n, object, <<>>, <<>>).updates

DeleteRecord(n, object) ==
    LET Found(s) ==
            IF s.end = "found"
            THEN delete_unlink(n, s.parent_link, s.updates).updates
            ELSE s.updates
    IN Found(delete_search(n, object, <<>>, <<>>))

C17_PathRecordBounded ==
    [][(Usable /\ lastOp' \in {"put", "delete"}) =>
        \A needs \in {IF lastOp' = "put"
                      THEN PutNeeds(root, lastArg'.key)
                      ELSE DeleteNeeds(root, lastArg'.key)} :
          \A updates \in {IF lastOp' = "put"
                          THEN PutRecord(root, lastArg')
                          ELSE DeleteRecord(root, lastArg')} :
            /\ Len(updates) <= UpdateCapacity - 1
            /\ \A i \in DOMAIN updates : i - 1 < UpdateCapacity
            /\ (lastErr' = "ETOOBIG") <=> (needs > UpdateCapacity - 1)
            /\ lastErr' # "ETOOBIG" => Len(updates) = needs
            /\ lastErr' = "ETOOBIG" => root' = root]_vars

\* a put was refused at the foot of a tree as high as the record is long
C17_Witness ==
    /\ Usable
    /\ lastOp = "put"
    /\ lastErr = "ETOOBIG"
    /\ PutNeeds(root, lastArg.key) = UpdateCapacity

\* a put has added a node with the record full
C17_WitnessFull ==
    /\ AfterInsert
    /\ NodesAbove(root, lastArg.key) = UpdateCapacity - 1

\* a delete of a key that is not stored was refused at the foot of the tree
C17_WitnessDelete ==
    /\ Usable
    /\ lastOp = "delete"
    /\ lastErr = "ETOOBIG"
    /\ NodeUnder(root, lastArg.key) = NULL
    /\ DeleteNeeds(root, lastArg.key) = UpdateCapacity

====
